---- MODULE Spec2Model ----
(***************************************************************************)
(* Model of the teacher duty roster (src/App.tsx, first App component,     *)
(* lines 1-803): the schedule-regeneration effect and the helpers it uses. *)
(*                                                                         *)
(* A JavaScript Date at local midnight is a record                         *)
(*   [year, month (0..11, as getMonth), date (1..31, as getDate)].         *)
(* A 'YYYY-MM-DD' string is the tuple <<year, month (1..12), day>>:        *)
(* formatDate and the split('-') parse convert between the two (the month  *)
(* is shifted by one), and zero padding makes the string order the tuple   *)
(* order.  A Teacher is represented by its id (its name takes no part in   *)
(* any state change); null is the string "null" and the explicit-empty     *)
(* sentinel is "__EMPTY__".                                                *)
(*                                                                         *)
(* walk holds the locals of generateSchedule (currentDatePointer,          *)
(* teacherCycleIndex, fullSchedule) while the loop is executed one         *)
(* iteration per step; visited records the dates the iterations have       *)
(* handled, in order.                                                      *)
(***************************************************************************)
EXTENDS Integers, Sequences, FiniteSets, TLC

VARIABLES teachers, scheduleStartDate, manualChanges, currentDate, shifts, crashed,
          dateColors, dragTeacherId, dragOverTeacherId, walk, visited

vars == <<teachers, scheduleStartDate, manualChanges, currentDate, shifts, crashed,
          dateColors, dragTeacherId, dragOverTeacherId, walk, visited>>

NULL == "null"
EMPTY == "__EMPTY__"

\* ------------------------------------------------------------------ bounds
MaxTeachers == 3
MaxOverrides == 2

\* ids of initialTeachersData that the bounded rosters are built from
TeacherIds == {"1", "2", "3"}

\* ------------------------------------------------- ECMAScript Date built-in
IsLeapYear(y) == (y % 4 = 0 /\ y % 100 # 0) \/ y % 400 = 0

DaysInMonth(y, m) ==
    IF m \in {0, 2, 4, 6, 7, 9, 11} THEN 31
    ELSE IF m = 1 THEN (IF IsLeapYear(y) THEN 29 ELSE 28)
    ELSE 30

\* new Date(y, m, d): month and day overflow/underflow are carried over
RECURSIVE NewDate(_, _, _)
NewDate(y, m, d) ==
    IF m < 0 THEN NewDate(y - 1, m + 12, d)
    ELSE IF m > 11 THEN NewDate(y + 1, m - 12, d)
    ELSE IF d < 1 THEN
        (IF m = 0 THEN NewDate(y - 1, 11, d + 31)
         ELSE NewDate(y, m - 1, d + DaysInMonth(y, m - 1)))
    ELSE IF d > DaysInMonth(y, m) THEN NewDate(y, m + 1, d - DaysInMonth(y, m))
    ELSE [year |-> y, month |-> m, date |-> d]

\* a < b on two Dates (both at local midnight)
DateLess(a, b) ==
    \/ a.year < b.year
    \/ a.year = b.year /\ a.month < b.month
    \/ a.year = b.year /\ a.month = b.month /\ a.date < b.date

\* date.setDate(date.getDate() + 1)
\* mutant: the pointer is advanced by two days
AddTwoDays(date) == NewDate(date.year, date.month, date.date + 2)

AddOneDay(date) == NewDate(date.year, date.month, date.date + 1)

\* ------------------------------------------------------------------ helpers
\* mutant: the month is written as getMonth() gives it, without the + 1
formatDateZeroBasedMonth(date) == <<date.year, date.month, date.date>>

formatDate(date) == <<date.year, date.month + 1, date.date>>

RECURSIVE DatesWhileInMonth(_, _, _)
DatesWhileInMonth(date, month, dates) ==
    IF date.month = month
    THEN DatesWhileInMonth(AddOneDay(date), month, Append(dates, date))
    ELSE dates

getDatesInMonth(year, month) == DatesWhileInMonth(NewDate(year, month, 1), month, <<>>)

\* monthDates.map(d => ({ date: formatDate(d), teacherId: null }))
NullShifts(cur) ==
    LET monthDates == getDatesInMonth(cur.year, cur.month)
    IN  [i \in 1..Len(monthDates) |-> [date |-> formatDate(monthDates[i]), teacherId |-> NULL]]

\* ------------------------------------------------------- generateSchedule
\* mutant: the start date parsed as UTC midnight, which west of Greenwich is the
\* previous local day (the off-by-one the comment at lines 173-174 warns about)
globalStartDateUTC(start) == NewDate(start[1], start[2] - 1, start[3] - 1)

\* const [startYear, startMonth, startDay] = scheduleStartDate.split('-').map(Number)
globalStartDate(start) == NewDate(start[1], start[2] - 1, start[3])

\* mutant: the index map keyed by teacher name instead of id, so that no id is found
teacherIndexMapByName(t) == [id \in {} |-> 0]

\* mutant: the map answers has() for every id, in the roster or not
teacherIndexMapOfAnyId(t) == [id \in TeacherIds |-> 0]

\* teachers.forEach((t, i) => teacherIndexMap.set(t.id, i)): a later entry wins
teacherIndexMap(t) ==
    [id \in {t[i] : i \in 1..Len(t)} |->
        (CHOOSE i \in 1..Len(t) : t[i] = id /\ \A j \in (i + 1)..Len(t) : t[j] # id) - 1]

lastDayOfVisibleMonth(cur) == NewDate(cur.year, cur.month + 1, 0)

\* mutant: the empty-roster early return is missing
RosterIsEmptyNever(t) == FALSE

RosterIsEmpty(t) == Len(t) = 0

StartsAfterMonth(start, cur) == DateLess(lastDayOfVisibleMonth(cur), globalStartDate(start))

\* mutant: the cursor is set to the picked teacher's own index
CycleIndexAfterOverrideNoStep(i) == i

\* teacherCycleIndex after a manual pick of the teacher at index i
\* mutant: the cursor is set before the overriding teacher
CycleIndexAfterOverrideBefore(i) == i - 1

\* mutant: the cursor skips the teacher after the overriding one
CycleIndexAfterOverrideSkips(i) == i + 2

CycleIndexAfterOverride(i) == i + 1

\* mutant: an '__EMPTY__' day consumes a rotation turn
CycleIndexAfterEmptyAdvances(idx) == idx + 1

\* teacherCycleIndex after an '__EMPTY__' override: the branch leaves it alone
CycleIndexAfterEmpty(idx) == idx

\* mutant: a stale override consumes a rotation turn
CycleIndexAfterStaleAdvances(idx) == idx + 1

\* teacherCycleIndex after an override naming a deleted teacher: left alone
CycleIndexAfterStale(idx) == idx

\* mutant: teacherCycleIndex++ is missing
CycleIndexAfterRotationStuck(idx) == idx

\* teacherCycleIndex after a rotation pick
CycleIndexAfterRotation(idx) == idx + 1

\* teachers[teacherCycleIndex % teachers.length]
RotationSlot(t, idx) == (idx % Len(t)) + 1

\* if (manualOverrideId): a key that is present (its value is a non-empty string)
HasOverride(mc, dateStr) == dateStr \in DOMAIN mc

\* One iteration of the while loop on the loop state
\* w = [ptr, idx (teacherCycleIndex), fs (fullSchedule), err];
\* index is the teacherIndexMap built before the loop.
WalkStep(w, t, index, mc) ==
    LET dateStr == formatDate(w.ptr)
        next    == AddOneDay(w.ptr)
    IN  IF HasOverride(mc, dateStr) THEN
            IF mc[dateStr] = EMPTY THEN
                [w EXCEPT !.ptr = next,
                          !.idx = CycleIndexAfterEmpty(w.idx),
                          !.fs = (dateStr :> NULL) @@ w.fs]
            ELSE IF mc[dateStr] \in DOMAIN index THEN
                [w EXCEPT !.ptr = next,
                          !.idx = CycleIndexAfterOverride(index[mc[dateStr]]),
                          !.fs = (dateStr :> mc[dateStr]) @@ w.fs]
            ELSE
                [w EXCEPT !.ptr = next,
                          !.idx = CycleIndexAfterStale(w.idx),
                          !.fs = (dateStr :> NULL) @@ w.fs]
        ELSE IF Len(t) = 0 THEN
            \* teachers[NaN] is undefined: reading .id throws a TypeError
            [w EXCEPT !.err = TRUE]
        ELSE
            [w EXCEPT !.ptr = next,
                      !.idx = CycleIndexAfterRotation(w.idx),
                      !.fs = (dateStr :> t[RotationSlot(t, w.idx)]) @@ w.fs]

\* while (currentDatePointer <= lastDayOfVisibleMonth)
\* mutant: the loop stops before the last day of the visible month
WalkContinuesStrict(ptr, last) == DateLess(ptr, last)

WalkContinues(ptr, last) == ~DateLess(last, ptr)

RECURSIVE WalkLoop(_, _, _, _, _)
WalkLoop(w, t, index, mc, last) ==
    IF ~w.err /\ WalkContinues(w.ptr, last)
    THEN WalkLoop(WalkStep(w, t, index, mc), t, index, mc, last)
    ELSE w

\* mutant: the walk starts on the 1st of the visible month when the start date is
\* earlier, so the cursor restarts every month
WalkFromVisibleMonth(t, start, mc, cur) ==
    LET first == NewDate(cur.year, cur.month, 1)
        from  == IF DateLess(globalStartDate(start), first) THEN first ELSE globalStartDate(start)
    IN  WalkLoop([ptr |-> from, idx |-> 0, fs |-> <<>>, err |-> FALSE],
                 t, teacherIndexMap(t), mc, lastDayOfVisibleMonth(cur))

\* mutant: the cursor starts at the number of overrides
WalkCountingOverrides(t, start, mc, cur) ==
    WalkLoop([ptr |-> globalStartDate(start), idx |-> Cardinality(DOMAIN mc), fs |-> <<>>,
              err |-> FALSE],
             t, teacherIndexMap(t), mc, lastDayOfVisibleMonth(cur))

Walk(t, start, mc, cur) ==
    WalkLoop([ptr |-> globalStartDate(start), idx |-> 0, fs |-> <<>>, err |-> FALSE],
             t, teacherIndexMap(t), mc, lastDayOfVisibleMonth(cur))

\* if (date < globalStartDate)
BeforeStart(date, start) == DateLess(date, globalStartDate(start))

\* monthDates.map(date => ...) over the finished fullSchedule
newShifts(fs, start, cur) ==
    LET monthDates == getDatesInMonth(cur.year, cur.month)
    IN  [i \in 1..Len(monthDates) |->
            LET dateString == formatDate(monthDates[i])
            IN  IF BeforeStart(monthDates[i], start)
                THEN [date |-> dateString, teacherId |-> NULL]
                ELSE [date |-> dateString,
                      teacherId |-> IF dateString \in DOMAIN fs THEN fs[dateString] ELSE NULL]]

\* teachers.forEach((teacher, index) => teacherIndexMap.set(teacher.id, index))
\* reads the id of every array element: a null element throws a TypeError
IndexMapThrows(t) == \E i \in 1..Len(t) : t[i] = NULL

\* mutant: the result is kept between invocations, a month that has one is not
\* computed again
RegenerateCached(t, start, mc, cur, old) ==
    IF old # <<>> /\ old[1].date = <<cur.year, cur.month + 1, 1>>
    THEN [shifts |-> old, crashed |-> FALSE]
    ELSE IF RosterIsEmpty(t) \/ StartsAfterMonth(start, cur)
    THEN [shifts |-> NullShifts(cur), crashed |-> FALSE]
    ELSE [shifts |-> newShifts(Walk(t, start, mc, cur).fs, start, cur), crashed |-> FALSE]

\* The body of the regeneration effect: [shifts, crashed] it leaves behind
\* (a thrown TypeError leaves the old shifts in place).
Regenerate(t, start, mc, cur, old) ==
    IF RosterIsEmpty(t) THEN [shifts |-> NullShifts(cur), crashed |-> FALSE]
    ELSE IF IndexMapThrows(t) THEN [shifts |-> old, crashed |-> TRUE]
    ELSE IF StartsAfterMonth(start, cur) THEN [shifts |-> NullShifts(cur), crashed |-> FALSE]
    ELSE LET w == Walk(t, start, mc, cur)
         IN  IF w.err THEN [shifts |-> old, crashed |-> TRUE]
             ELSE [shifts |-> newShifts(w.fs, start, cur), crashed |-> FALSE]

\* The schedule the effect computes for the given inputs
Generate(t, start, mc, cur) == Regenerate(t, start, mc, cur, <<>>).shifts

\* ------------------------------------------------ bounded generator inputs
RECURSIVE SeqsUpTo(_, _)
SeqsUpTo(S, n) ==
    IF n = 0 THEN {<<>>}
    ELSE LET shorter == SeqsUpTo(S, n - 1)
         IN  shorter \cup {Append(s, x) : s \in {q \in shorter : Len(q) = n - 1}, x \in S}

Rosters == SeqsUpTo(TeacherIds, MaxTeachers)

StartDates == {<<2024, 1, 1>>, <<2024, 1, 30>>, <<2024, 3, 1>>}

OverrideDates == {<<2024, 1, 1>>, <<2024, 1, 3>>, <<2024, 1, 31>>, <<2024, 2, 1>>}

\* the first and the last id of the pool, and the sentinel
OverrideValues == {"1", "3", EMPTY}

OverrideMaps ==
    UNION {[K -> OverrideValues] : K \in {S \in SUBSET OverrideDates : Cardinality(S) <= MaxOverrides}}

VisibleDates == {[year |-> 2024, month |-> 0, date |-> 15], [year |-> 2024, month |-> 1, date |-> 15]}

\* the locals of generateSchedule when it is not executing
IdleWalk ==
    [pc |-> "idle", ptr |-> [year |-> 0, month |-> 0, date |-> 0], idx |-> 0,
     fs |-> <<>>, err |-> FALSE]

\* ------------------------------------------------- generator specification
InitGen ==
    /\ teachers \in Rosters
    /\ scheduleStartDate \in StartDates
    /\ manualChanges \in OverrideMaps
    /\ currentDate \in VisibleDates
    /\ shifts = <<>>
    /\ crashed = FALSE
    /\ dateColors = <<>>
    /\ dragTeacherId = NULL
    /\ dragOverTeacherId = NULL
    /\ walk = IdleWalk
    /\ visited = <<>>

\* useEffect(() => { ... }, [currentDate, teachers, scheduleStartDate, manualChanges])
RegenerateSchedule ==
    /\ shifts = <<>>
    /\ ~crashed
    /\ LET r == Regenerate(teachers, scheduleStartDate, manualChanges, currentDate, shifts)
       IN  /\ shifts' = r.shifts
           /\ crashed' = r.crashed
    /\ UNCHANGED <<teachers, scheduleStartDate, manualChanges, currentDate>>
    /\ UNCHANGED <<dateColors, dragTeacherId, dragOverTeacherId, walk, visited>>

NextGen == RegenerateSchedule

SpecGen == InitGen /\ [][NextGen]_vars

\* -------------------------------------- the effect, one loop iteration a step
\* inputs of the stepwise runs: rosters and at most one override
WalkOverrideMaps == {mc \in OverrideMaps : Cardinality(DOMAIN mc) <= 1}

InitWalk ==
    /\ teachers \in Rosters
    /\ scheduleStartDate \in StartDates
    /\ manualChanges \in WalkOverrideMaps
    /\ currentDate \in VisibleDates
    /\ shifts = <<>>
    /\ crashed = FALSE
    /\ dateColors = <<>>
    /\ dragTeacherId = NULL
    /\ dragOverTeacherId = NULL
    /\ walk = IdleWalk
    /\ visited = <<>>

\* lines 166-169 and 175-191: the early returns, else the locals are initialised
EffectBegin ==
    /\ walk.pc = "idle"
    /\ IF RosterIsEmpty(teachers)
       THEN /\ shifts' = NullShifts(currentDate)
            /\ walk' = [walk EXCEPT !.pc = "done"]
            /\ UNCHANGED crashed
       ELSE IF IndexMapThrows(teachers)
       THEN /\ crashed' = TRUE
            /\ walk' = [walk EXCEPT !.pc = "done", !.err = TRUE]
            /\ UNCHANGED shifts
       ELSE IF StartsAfterMonth(scheduleStartDate, currentDate)
       THEN /\ shifts' = NullShifts(currentDate)
            /\ walk' = [walk EXCEPT !.pc = "done"]
            /\ UNCHANGED crashed
       ELSE /\ walk' = [pc |-> "loop", ptr |-> globalStartDate(scheduleStartDate),
                        idx |-> 0, fs |-> <<>>, err |-> FALSE]
            /\ UNCHANGED <<shifts, crashed>>
    /\ UNCHANGED <<teachers, scheduleStartDate, manualChanges, currentDate,
                   dateColors, dragTeacherId, dragOverTeacherId, visited>>

\* lines 193-215: one iteration of the while loop
LoopIteration ==
    /\ walk.pc = "loop"
    /\ WalkContinues(walk.ptr, lastDayOfVisibleMonth(currentDate))
    /\ LET w == WalkStep(walk, teachers, teacherIndexMap(teachers), manualChanges)
       IN  /\ walk' = IF w.err THEN [w EXCEPT !.pc = "done"] ELSE w
           /\ crashed' = w.err
    /\ visited' = Append(visited, formatDate(walk.ptr))
    /\ UNCHANGED <<teachers, scheduleStartDate, manualChanges, currentDate, shifts,
                   dateColors, dragTeacherId, dragOverTeacherId>>

\* lines 217-226: the loop condition fails, the month is read off fullSchedule
LoopExit ==
    /\ walk.pc = "loop"
    /\ ~WalkContinues(walk.ptr, lastDayOfVisibleMonth(currentDate))
    /\ shifts' = newShifts(walk.fs, scheduleStartDate, currentDate)
    /\ walk' = [walk EXCEPT !.pc = "done"]
    /\ UNCHANGED <<teachers, scheduleStartDate, manualChanges, currentDate, crashed,
                   dateColors, dragTeacherId, dragOverTeacherId, visited>>

NextWalk == EffectBegin \/ LoopIteration \/ LoopExit

SpecWalk == InitWalk /\ [][NextWalk]_vars

\* ------------------------------------------- persisted and shared state
\* A field of a parsed JSON document is <<>> when absent (or null) and <<v>> when
\* it holds v; a field is whatever JSON.parse returned: nothing checks its shape.
EmptyDoc ==
    [teachers |-> <<>>, scheduleStartDate |-> <<>>, manualChanges |-> <<>>, dateColors |-> <<>>]

\* the null result of loadStateFromUrl is <<>>, a parsed document d is <<d>>
loadStateFromUrl(hash) == IF hash.kind = "data" THEN <<hash.doc>> ELSE <<>>

loadStateFromLocalStorage(item) == IF item.kind = "data" THEN item.doc ELSE EmptyDoc

\* initialUrlState?.field ?? initialStorageState?.field ?? default
Coalesce(url, storage, field, default) ==
    IF url # <<>> /\ url[1][field] # <<>> THEN url[1][field][1]
    ELSE IF storage[field] # <<>> THEN storage[field][1]
    ELSE default

\* the first two entries of initialTeachersData (the bound on the roster leaves
\* room for an added teacher)
initialTeachers == <<"1", "2">>

\* new Date() when the component is constructed
Today == [year |-> 2024, month |-> 0, date |-> 15]

\* location.hash: no '#data=' prefix, a payload that does not decode, a shared
\* roster in another order, and the payload {"teachers":[null]}
UrlHashes ==
    {[kind |-> "none", doc |-> EmptyDoc],
     [kind |-> "corrupt", doc |-> EmptyDoc],
     [kind |-> "data", doc |-> [EmptyDoc EXCEPT !.teachers = << <<"2", "1">> >>]],
     [kind |-> "data", doc |-> [EmptyDoc EXCEPT !.teachers = << <<NULL>> >>]]}

\* the localStorage item: missing, not parseable, and a state the app saved
StoredItems ==
    {[kind |-> "none", doc |-> EmptyDoc],
     [kind |-> "corrupt", doc |-> EmptyDoc],
     [kind |-> "data", doc |-> [teachers |-> << <<"2">> >>,
                                scheduleStartDate |-> << <<2024, 1, 15>> >>,
                                manualChanges |-> << (<<2024, 2, 2>> :> "2") >>,
                                dateColors |-> << <<>> >>]]}

\* the ids of a roster
RosterIds(t) == {t[i] : i \in 1..Len(t)}

\* ---------------------------------------------------------- the application
\* what the user can enter
AppStartDates == {<<2024, 1, 15>>, <<2024, 2, 1>>}
AppOverrideDates == {<<2024, 1, 16>>}
ColorDates == {<<2024, 1, 16>>}
Colors == {"red"}
\* Date.now() at the clicks on the add button
ClockReadings == {100, 101}
\* months the user navigates away from the month of Today
MaxMonthsAhead == 1

Init ==
    /\ \E hash \in UrlHashes, item \in StoredItems :
          LET initialUrlState == loadStateFromUrl(hash)
              initialStorageState == loadStateFromLocalStorage(item)
          IN  /\ teachers = Coalesce(initialUrlState, initialStorageState, "teachers", initialTeachers)
              /\ scheduleStartDate = Coalesce(initialUrlState, initialStorageState,
                                              "scheduleStartDate", formatDate(Today))
              /\ manualChanges = Coalesce(initialUrlState, initialStorageState, "manualChanges", <<>>)
              /\ dateColors = Coalesce(initialUrlState, initialStorageState, "dateColors", <<>>)
    /\ shifts = <<>>
    /\ currentDate = Today
    /\ crashed = FALSE
    /\ dragTeacherId = NULL
    /\ dragOverTeacherId = NULL
    /\ walk = IdleWalk
    /\ visited = <<>>

\* mutant: the visible month is not a dependency of the effect
EffectDepsWithoutMonth == {"teachers", "scheduleStartDate", "manualChanges"}

\* mutant: the roster is not a dependency of the effect
EffectDepsWithoutTeachers == {"currentDate", "scheduleStartDate", "manualChanges"}

\* the dependency list of the regeneration effect
EffectDeps == {"currentDate", "teachers", "scheduleStartDate", "manualChanges"}

\* The render that follows a handler: the effect runs again when the handler has
\* set one of its dependencies, on the new values of the state.
Render(set, t, start, mc, cur) ==
    IF set \cap EffectDeps # {}
    THEN LET r == Regenerate(t, start, mc, cur, shifts)
         IN  shifts' = r.shifts /\ crashed' = r.crashed
    ELSE UNCHANGED <<shifts, crashed>>

\* the handlers run once the component is mounted and has not thrown
Mounted == (shifts # <<>> \/ crashed) /\ ~crashed

handleMonthChange(offset) ==
    /\ Mounted
    /\ LET newDate == NewDate(currentDate.year, currentDate.month + offset, currentDate.date)
           ahead == 12 * (currentDate.year - Today.year) + currentDate.month + offset - Today.month
       IN  /\ ahead \in 0..MaxMonthsAhead
           /\ currentDate' = newDate
           /\ Render({"currentDate"}, teachers, scheduleStartDate, manualChanges, newDate)
    /\ UNCHANGED <<teachers, scheduleStartDate, manualChanges, dateColors,
                   dragTeacherId, dragOverTeacherId, walk, visited>>

handleAddTeacher(now) ==
    /\ Mounted
    /\ Len(teachers) < MaxTeachers
    /\ LET newTeacher == ToString(now)
       IN  /\ teachers' = Append(teachers, newTeacher)
           /\ Render({"teachers"}, teachers', scheduleStartDate, manualChanges, currentDate)
    /\ UNCHANGED <<scheduleStartDate, manualChanges, currentDate, dateColors,
                   dragTeacherId, dragOverTeacherId, walk, visited>>

\* mutant: deleting a teacher drops every override
WithoutAnyOverride(mc, teacherId) == [d \in {} |-> NULL]

\* mutant: deleting a teacher leaves the override map as it is
WithOverridesKept(mc, teacherId) == mc

\* the override map without the entries whose value is teacherId
WithoutOverridesOf(mc, teacherId) == [d \in {k \in DOMAIN mc : mc[k] # teacherId} |-> mc[d]]

\* mutant: the remaining teachers come out in reverse order
WithoutTeacherReversed(t, teacherId) ==
    LET kept == SelectSeq(t, LAMBDA x : x # teacherId)
    IN  [i \in 1..Len(kept) |-> kept[Len(kept) + 1 - i]]

\* prev.filter(t => t.id !== teacherId)
WithoutTeacher(t, teacherId) == SelectSeq(t, LAMBDA x : x # teacherId)

handleDeleteTeacher(teacherId) ==
    /\ Mounted
    /\ manualChanges' = WithoutOverridesOf(manualChanges, teacherId)
    /\ teachers' = WithoutTeacher(teachers, teacherId)
    /\ Render({"manualChanges", "teachers"}, teachers', scheduleStartDate, manualChanges', currentDate)
    /\ UNCHANGED <<scheduleStartDate, currentDate, dateColors,
                   dragTeacherId, dragOverTeacherId, walk, visited>>

\* mutant: clearing the roster leaves the colour map as it is
handleClearTeachersKeepingColours(confirmed) ==
    /\ Mounted
    /\ confirmed
    /\ teachers' = <<>>
    /\ manualChanges' = <<>>
    /\ Render({"teachers", "manualChanges"}, teachers', scheduleStartDate, manualChanges', currentDate)
    /\ UNCHANGED <<scheduleStartDate, currentDate, dateColors, dragTeacherId, dragOverTeacherId,
                   walk, visited>>

\* confirmed is the answer window.confirm returns
handleClearTeachers(confirmed) ==
    /\ Mounted
    /\ IF confirmed
       THEN /\ teachers' = <<>>
            /\ manualChanges' = <<>>
            /\ dateColors' = <<>>
            /\ Render({"teachers", "manualChanges", "dateColors"}, teachers', scheduleStartDate,
                      manualChanges', currentDate)
       ELSE UNCHANGED <<teachers, manualChanges, dateColors, shifts, crashed>>
    /\ UNCHANGED <<scheduleStartDate, currentDate, dragTeacherId, dragOverTeacherId, walk, visited>>

\* mutant: a null teacher deletes the key of the date
WithOverrideDeletedOnNull(mc, date, newTeacherId) ==
    IF newTeacherId # NULL THEN (date :> newTeacherId) @@ mc
    ELSE [d \in DOMAIN mc \ {date} |-> mc[d]]

\* newChanges[date] = newTeacherId, or '__EMPTY__' when newTeacherId is null
WithOverride(mc, date, newTeacherId) ==
    (date :> (IF newTeacherId # NULL THEN newTeacherId ELSE EMPTY)) @@ mc

\* the cells shown are the days of the visible month
Shown(date) == date[1] = currentDate.year /\ date[2] = currentDate.month + 1

handleUpdateShift(date, newTeacherId) ==
    /\ Mounted
    /\ Shown(date)
    /\ Cardinality(DOMAIN manualChanges \cup {date}) <= MaxOverrides
    /\ manualChanges' = WithOverride(manualChanges, date, newTeacherId)
    /\ Render({"manualChanges"}, teachers, scheduleStartDate, manualChanges', currentDate)
    /\ UNCHANGED <<teachers, scheduleStartDate, currentDate, dateColors,
                   dragTeacherId, dragOverTeacherId, walk, visited>>

handleClearShift(date) == handleUpdateShift(date, NULL)

handleSetDateColor(date, color) ==
    /\ Mounted
    /\ Shown(date)
    /\ dateColors' = IF color # NULL THEN (date :> color) @@ dateColors
                     ELSE [d \in DOMAIN dateColors \ {date} |-> dateColors[d]]
    /\ Render({"dateColors"}, teachers, scheduleStartDate, manualChanges, currentDate)
    /\ UNCHANGED <<teachers, scheduleStartDate, manualChanges, currentDate,
                   dragTeacherId, dragOverTeacherId, walk, visited>>

\* mutant: a new start date leaves the override map as it is
handleStartDateChangeKeepingOverrides(newDate) ==
    /\ Mounted
    /\ newDate # <<>>
    /\ scheduleStartDate' = newDate
    /\ dateColors' = <<>>
    /\ Render({"scheduleStartDate", "dateColors"}, teachers, newDate, manualChanges, currentDate)
    /\ UNCHANGED <<teachers, manualChanges, currentDate, dragTeacherId, dragOverTeacherId,
                   walk, visited>>

\* newDate is e.target.value: a date, or the empty string (<<>>) of a cleared input
handleStartDateChange(newDate) ==
    /\ Mounted
    /\ IF newDate # <<>>
       THEN /\ scheduleStartDate' = newDate
            /\ manualChanges' = <<>>
            /\ dateColors' = <<>>
            /\ Render({"scheduleStartDate", "manualChanges", "dateColors"}, teachers, newDate,
                      manualChanges', currentDate)
       ELSE UNCHANGED <<scheduleStartDate, manualChanges, dateColors, shifts, crashed>>
    /\ UNCHANGED <<teachers, currentDate, dragTeacherId, dragOverTeacherId, walk, visited>>

\* confirmed is the answer window.confirm returns
handleResetSchedule(confirmed) ==
    /\ Mounted
    /\ IF confirmed
       THEN /\ manualChanges' = <<>>
            /\ dateColors' = <<>>
            /\ Render({"manualChanges", "dateColors"}, teachers, scheduleStartDate,
                      manualChanges', currentDate)
       ELSE UNCHANGED <<manualChanges, dateColors, shifts, crashed>>
    /\ UNCHANGED <<teachers, scheduleStartDate, currentDate,
                   dragTeacherId, dragOverTeacherId, walk, visited>>

\* teachers.findIndex(t => t.id === id)
FindIndex(t, id) ==
    IF \E i \in 1..Len(t) : t[i] = id
    THEN (CHOOSE i \in 1..Len(t) : t[i] = id /\ \A j \in 1..(i - 1) : t[j] # id) - 1
    ELSE -1

\* mutant: the dragged row and the row it is dropped on change places
MoveTeacherSwapping(t, dragIndex, dropIndex) ==
    [i \in 1..Len(t) |-> IF i = dragIndex + 1 THEN t[dropIndex + 1]
                         ELSE IF i = dropIndex + 1 THEN t[dragIndex + 1]
                         ELSE t[i]]

\* splice(dragIndex, 1) then splice(dropIndex, 0, draggedItem) on a copy
MoveTeacher(t, dragIndex, dropIndex) ==
    LET draggedItem == t[dragIndex + 1]
        teachersClone == SubSeq(t, 1, dragIndex) \o SubSeq(t, dragIndex + 2, Len(t))
    IN  SubSeq(teachersClone, 1, dropIndex) \o <<draggedItem>>
            \o SubSeq(teachersClone, dropIndex + 1, Len(teachersClone))

\* onDragEnd, with the ids onDragStart and onDragEnter have left in the two refs
handleDragSort(drag, over) ==
    /\ Mounted
    /\ IF drag = NULL \/ over = NULL \/ drag = over
          \/ FindIndex(teachers, drag) = -1 \/ FindIndex(teachers, over) = -1
       THEN /\ dragTeacherId' = drag
            /\ dragOverTeacherId' = over
            /\ UNCHANGED teachers
            /\ Render({}, teachers, scheduleStartDate, manualChanges, currentDate)
       ELSE /\ teachers' = MoveTeacher(teachers, FindIndex(teachers, drag), FindIndex(teachers, over))
            /\ dragTeacherId' = NULL
            /\ dragOverTeacherId' = NULL
            /\ Render({"teachers"}, teachers', scheduleStartDate, manualChanges, currentDate)
    /\ UNCHANGED <<scheduleStartDate, manualChanges, currentDate, dateColors, walk, visited>>

\* One user operation; every handler is followed by the render it causes.  A row
\* is dragged onto another row (a drop on the row itself changes nothing but the
\* two refs, which the next drag overwrites).
Next ==
    \/ RegenerateSchedule
    \/ \E offset \in {-1, 1} : handleMonthChange(offset)
    \/ \E now \in ClockReadings : handleAddTeacher(now)
    \/ \E teacherId \in RosterIds(teachers) : handleDeleteTeacher(teacherId)
    \/ \E confirmed \in BOOLEAN : handleClearTeachers(confirmed)
    \/ \E date \in AppOverrideDates, id \in RosterIds(teachers) \cup {NULL} :
          handleUpdateShift(date, id)
    \/ \E date \in AppOverrideDates : handleClearShift(date)
    \/ \E date \in ColorDates, color \in Colors \cup {NULL} : handleSetDateColor(date, color)
    \/ \E newDate \in AppStartDates \cup {<<>>} : handleStartDateChange(newDate)
    \/ \E confirmed \in BOOLEAN : handleResetSchedule(confirmed)
    \/ \E drag \in RosterIds(teachers) :
          \E over \in RosterIds(teachers) \ {drag} : handleDragSort(drag, over)

Spec == Init /\ [][Next]_vars

\* ------------------------------------------------------ reading a schedule
\* The effect has run: every month has days, so a computed schedule is not empty
EffectRan == shifts # <<>> \/ crashed

\* 'YYYY-MM-DD' strings compared as strings
StrLess(a, b) ==
    \/ a[1] < b[1]
    \/ a[1] = b[1] /\ a[2] < b[2]
    \/ a[1] = b[1] /\ a[2] = b[2] /\ a[3] < b[3]

StrLeq(a, b) == a = b \/ StrLess(a, b)

\* the last calendar day of the visible month, as a string
LastDayStr(cur) == <<cur.year, cur.month + 1, DaysInMonth(cur.year, cur.month)>>

\* the number of the day a string names, counted from 2023-01-01
RECURSIVE DaysBeforeYear(_)
DaysBeforeYear(y) ==
    IF y <= 2023 THEN 0
    ELSE DaysBeforeYear(y - 1) + (IF IsLeapYear(y - 1) THEN 366 ELSE 365)

RECURSIVE DaysBeforeMonth(_, _)
DaysBeforeMonth(y, m) ==
    IF m <= 1 THEN 0 ELSE DaysBeforeMonth(y, m - 1) + DaysInMonth(y, m - 2)

DayNum(str) == DaysBeforeYear(str[1]) + DaysBeforeMonth(str[1], str[2]) + str[3]

AllNull(sh) == \A i \in 1..Len(sh) : sh[i].teacherId = NULL

\* the override map without the keys in K
WithoutKeys(mc, K) == [d \in DOMAIN mc \ K |-> mc[d]]

\* ------------------------------------------------------------------ claims

\* C1: with an empty roster every date of the visible month is assigned null,
\* whatever the start date and the override map contain.
C1_EmptyRosterAllNull ==
    (EffectRan /\ teachers = <<>>) => (~crashed /\ shifts # <<>> /\ AllNull(shifts))

\* an empty roster whose start date is inside the visible month, with an override
\* on a date of that month
C1_Witness ==
    /\ EffectRan
    /\ teachers = <<>>
    /\ StrLeq(scheduleStartDate, LastDayStr(currentDate))
    /\ \E d \in DOMAIN manualChanges :
          /\ d[1] = currentDate.year /\ d[2] = currentDate.month + 1
          /\ manualChanges[d] # EMPTY

\* C2: when startDate is strictly after the last day of the visible month, every
\* date of the month is assigned null, for any non-empty roster and override map.
C2_StartAfterMonthAllNull ==
    (EffectRan /\ teachers # <<>> /\ StrLess(LastDayStr(currentDate), scheduleStartDate))
        => (~crashed /\ shifts # <<>> /\ AllNull(shifts))

\* the start date is the day after the visible month ends, and a date of the
\* visible month is overridden with a teacher of the roster
C2_Witness ==
    /\ EffectRan
    /\ teachers # <<>>
    /\ DayNum(scheduleStartDate) = DayNum(LastDayStr(currentDate)) + 1
    /\ \E d \in DOMAIN manualChanges :
          /\ d[1] = currentDate.year /\ d[2] = currentDate.month + 1
          /\ manualChanges[d] \in RosterIds(teachers)

\* C3: every date of the visible month strictly before startDate is assigned null,
\* even when it is overridden with a teacher of the roster, and the overrides on
\* dates before startDate change no assignment: the schedule is the one generated
\* without them.
C3_BeforeStartNull ==
    EffectRan =>
        /\ \A i \in 1..Len(shifts) :
              StrLess(shifts[i].date, scheduleStartDate) => shifts[i].teacherId = NULL
        /\ shifts = Generate(teachers, scheduleStartDate,
                             WithoutKeys(manualChanges,
                                         {d \in DOMAIN manualChanges : StrLess(d, scheduleStartDate)}),
                             currentDate)

\* the start date is inside the visible month and an earlier date of the month is
\* overridden with a teacher of the roster
C3_Witness ==
    /\ EffectRan
    /\ \E i \in 1..Len(shifts) : shifts[i].date = scheduleStartDate
    /\ \E d \in DOMAIN manualChanges :
          /\ StrLess(d, scheduleStartDate)
          /\ d[1] = currentDate.year /\ d[2] = currentDate.month + 1
          /\ manualChanges[d] \in RosterIds(teachers)

\* C4: the schedule has exactly one entry per calendar day of the visible month,
\* in ascending date order: entry i is day i of the month, and there are as many
\* entries as the month has days.
C4_OneEntryPerDay ==
    EffectRan =>
        /\ ~crashed
        /\ Len(shifts) = DaysInMonth(currentDate.year, currentDate.month)
        /\ \A i \in 1..Len(shifts) :
              shifts[i].date = <<currentDate.year, currentDate.month + 1, i>>
        /\ \A i \in 1..(Len(shifts) - 1) : StrLess(shifts[i].date, shifts[i + 1].date)

\* the normal walk for February 2024 (29 days), start date before the month
C4_Witness ==
    /\ EffectRan
    /\ teachers # <<>>
    /\ currentDate.year = 2024 /\ currentDate.month = 1
    /\ StrLess(scheduleStartDate, <<2024, 2, 1>>)
    /\ Len(shifts) = 29
    /\ DOMAIN manualChanges # {}

\* the 0-based position the roster gives id (the last one, as the index map
\* records it; the only one when the ids are unique)
IndexOf(t, id) ==
    (CHOOSE i \in 1..Len(t) : t[i] = id /\ \A j \in (i + 1)..Len(t) : t[j] # id) - 1

\* teachers[k mod n]
Nth(t, k) == t[(k % Len(t)) + 1]

InVisibleMonth(d) == d[1] = currentDate.year /\ d[2] = currentDate.month + 1

\* the string of the day after the one a string names
StrNextDay(d) == formatDate(AddOneDay(NewDate(d[1], d[2] - 1, d[3])))

\* C5: with a non-empty roster of length n, no overrides and startDate on the 1st
\* of the visible month, day d of the month is assigned teachers[(d-1) mod n];
\* roster [1,2,3] from 2024-01-01 gives Jan 1->1, 2->2, 3->3, 4->1 and Jan 31->1.
C5_PureRotationFromFirst ==
    (/\ EffectRan
     /\ teachers # <<>>
     /\ DOMAIN manualChanges = {}
     /\ scheduleStartDate = <<currentDate.year, currentDate.month + 1, 1>>)
    => /\ Len(shifts) = DaysInMonth(currentDate.year, currentDate.month)
       /\ \A d \in 1..Len(shifts) : shifts[d].teacherId = Nth(teachers, d - 1)
       /\ (teachers = <<"1", "2", "3">> /\ scheduleStartDate = <<2024, 1, 1>>)
            => /\ shifts[1].teacherId = "1" /\ shifts[2].teacherId = "2"
               /\ shifts[3].teacherId = "3" /\ shifts[4].teacherId = "1"
               /\ shifts[31].teacherId = "1"

\* roster [1,2,3], start 2024-01-01, no overrides, January 2024 shown
C5_Witness ==
    /\ EffectRan
    /\ teachers = <<"1", "2", "3">>
    /\ DOMAIN manualChanges = {}
    /\ scheduleStartDate = <<2024, 1, 1>>
    /\ currentDate.month = 0
    /\ Len(shifts) = 31 /\ shifts[31].teacherId = "1"

\* C6: a date on or after startDate whose override is the id of a teacher of the
\* roster is assigned exactly that id, whatever the rotation cursor is there.
C6_OverrideAssignsTeacher ==
    EffectRan =>
        \A i \in 1..Len(shifts) :
            (/\ StrLeq(scheduleStartDate, shifts[i].date)
             /\ shifts[i].date \in DOMAIN manualChanges
             /\ manualChanges[shifts[i].date] \in RosterIds(teachers))
            => shifts[i].teacherId = manualChanges[shifts[i].date]

\* an overridden date gets a teacher other than the one the rotation gives it
\* when that override is taken away
C6_Witness ==
    /\ EffectRan
    /\ \E i \in 1..Len(shifts) :
          /\ StrLeq(scheduleStartDate, shifts[i].date)
          /\ shifts[i].date \in DOMAIN manualChanges
          /\ manualChanges[shifts[i].date] \in RosterIds(teachers)
          /\ shifts[i].teacherId = manualChanges[shifts[i].date]
          /\ Generate(teachers, scheduleStartDate,
                      WithoutKeys(manualChanges, {shifts[i].date}), currentDate)[i].teacherId
                \notin {NULL, shifts[i].teacherId}

\* C7: if date d on or after startDate is overridden with teacher T of the roster
\* and no later date has an override, the day k days after d (k >= 1) is assigned
\* teachers[(index(T) + k) mod n]: the day after d gets teachers[(index(T)+1) mod n],
\* which is teachers[0] when T is the last teacher, and the round-robin goes on.
C7_RotationResumesAfterOverride ==
    EffectRan =>
        \A d \in DOMAIN manualChanges :
            (/\ StrLeq(scheduleStartDate, d)
             /\ manualChanges[d] \in RosterIds(teachers)
             /\ \A e \in DOMAIN manualChanges : ~StrLess(d, e))
            => \A i \in 1..Len(shifts) :
                  StrLess(d, shifts[i].date)
                  => shifts[i].teacherId =
                        Nth(teachers, IndexOf(teachers, manualChanges[d])
                                      + DayNum(shifts[i].date) - DayNum(d))

\* the last teacher of a roster is picked by hand and the next day goes to
\* teachers[0], where the rotation counted from the start date gives another teacher
C7_Witness ==
    /\ EffectRan
    /\ \E d \in DOMAIN manualChanges, i \in 1..Len(shifts) :
          /\ StrLeq(scheduleStartDate, d)
          /\ \A e \in DOMAIN manualChanges : ~StrLess(d, e)
          /\ manualChanges[d] \in RosterIds(teachers)
          /\ IndexOf(teachers, manualChanges[d]) = Len(teachers) - 1
          /\ shifts[i].date = StrNextDay(d)
          /\ shifts[i].teacherId = teachers[1]
          /\ Nth(teachers, DayNum(shifts[i].date) - DayNum(scheduleStartDate)) # teachers[1]

\* the first day after d that has no override
RECURSIVE NextUnoverridden(_, _)
NextUnoverridden(mc, d) ==
    IF StrNextDay(d) \in DOMAIN mc THEN NextUnoverridden(mc, StrNextDay(d)) ELSE StrNextDay(d)

\* the teacher a walked date d gets when its own override is taken away
WouldGet(d) ==
    Walk(teachers, scheduleStartDate, WithoutKeys(manualChanges, {d}), currentDate).fs[d]

\* C8 as stated: a date on or after startDate whose override is the EMPTY sentinel
\* is assigned null, and the next un-overridden day gets the teacher that the
\* sentinel day would have got.
C8_AsStated ==
    EffectRan =>
        \A d \in DOMAIN manualChanges :
            (StrLeq(scheduleStartDate, d) /\ manualChanges[d] = EMPTY)
            => /\ \A i \in 1..Len(shifts) : shifts[i].date = d => shifts[i].teacherId = NULL
               /\ teachers # <<>>
                    => \A i \in 1..Len(shifts) :
                          shifts[i].date = NextUnoverridden(manualChanges, d)
                          => shifts[i].teacherId = WouldGet(d)

\* C8 (amended): a date on or after startDate whose override is the EMPTY sentinel
\* is assigned null and the cursor is not advanced: the next un-overridden day gets
\* the teacher that the sentinel day would have got, provided no day in between is
\* overridden with a teacher of the roster.  Roster [1,2], start 2024-01-01,
\* override {2024-01-03: EMPTY} gives Jan 1->1, 2->2, 3->null, 4->1, 5->2.
C8_EmptyKeepsCursor ==
    EffectRan =>
        /\ \A d \in DOMAIN manualChanges :
              (StrLeq(scheduleStartDate, d) /\ manualChanges[d] = EMPTY)
              => /\ \A i \in 1..Len(shifts) : shifts[i].date = d => shifts[i].teacherId = NULL
                 /\ (/\ teachers # <<>>
                     /\ \A e \in DOMAIN manualChanges :
                           (StrLess(d, e) /\ StrLess(e, NextUnoverridden(manualChanges, d)))
                           => manualChanges[e] \notin RosterIds(teachers))
                      => \A i \in 1..Len(shifts) :
                            shifts[i].date = NextUnoverridden(manualChanges, d)
                            => shifts[i].teacherId = WouldGet(d)
        /\ (/\ teachers = <<"1", "2">>
            /\ scheduleStartDate = <<2024, 1, 1>>
            /\ manualChanges = (<<2024, 1, 3>> :> EMPTY)
            /\ currentDate.year = 2024 /\ currentDate.month = 0)
           => /\ shifts[1].teacherId = "1" /\ shifts[2].teacherId = "2"
              /\ shifts[3].teacherId = NULL
              /\ shifts[4].teacherId = "1" /\ shifts[5].teacherId = "2"

\* the scenario of the claim: roster [1,2], start 2024-01-01, {2024-01-03: EMPTY}
C8_Witness ==
    /\ EffectRan
    /\ teachers = <<"1", "2">>
    /\ scheduleStartDate = <<2024, 1, 1>>
    /\ manualChanges = (<<2024, 1, 3>> :> EMPTY)
    /\ currentDate.year = 2024 /\ currentDate.month = 0
    /\ shifts[3].teacherId = NULL /\ shifts[4].teacherId = "1"

\* C9: a date on or after startDate whose override is an id that is not in the
\* roster is assigned null, and the whole schedule is the one generated with the
\* EMPTY sentinel on that date (the cursor is neither advanced nor reset).
C9_StaleOverrideIsInert ==
    EffectRan =>
        \A d \in DOMAIN manualChanges :
            (/\ StrLeq(scheduleStartDate, d)
             /\ manualChanges[d] # EMPTY
             /\ manualChanges[d] \notin RosterIds(teachers))
            => /\ \A i \in 1..Len(shifts) : shifts[i].date = d => shifts[i].teacherId = NULL
               /\ shifts = Generate(teachers, scheduleStartDate,
                                    [manualChanges EXCEPT ![d] = EMPTY], currentDate)

\* a stale override on a date shown in the month, the rotation running on the
\* following day
C9_Witness ==
    /\ EffectRan
    /\ teachers # <<>>
    /\ \E d \in DOMAIN manualChanges, i \in 1..Len(shifts) :
          /\ StrLeq(scheduleStartDate, d)
          /\ manualChanges[d] # EMPTY
          /\ manualChanges[d] \notin RosterIds(teachers)
          /\ i > 1 /\ shifts[i - 1].date = d /\ shifts[i - 1].teacherId = NULL
          /\ shifts[i].date \notin DOMAIN manualChanges
          /\ shifts[i].teacherId # NULL

\* C10: the rotation runs across month boundaries.  With no overrides the date k
\* days after startDate is assigned teachers[k mod n] in every visible month that
\* reaches startDate; and when the last override is a teacher T on a date on or
\* after startDate in a month before the visible one, the visible dates continue
\* from T: the date k days after it is assigned teachers[(index(T) + k) mod n].
C10_RotationAcrossMonths ==
    (EffectRan /\ teachers # <<>>) =>
        /\ DOMAIN manualChanges = {}
             => \A i \in 1..Len(shifts) :
                   StrLeq(scheduleStartDate, shifts[i].date)
                   => shifts[i].teacherId =
                         Nth(teachers, DayNum(shifts[i].date) - DayNum(scheduleStartDate))
        /\ \A d \in DOMAIN manualChanges :
              (/\ StrLeq(scheduleStartDate, d)
               /\ StrLess(d, <<currentDate.year, currentDate.month + 1, 1>>)
               /\ manualChanges[d] \in RosterIds(teachers)
               /\ \A e \in DOMAIN manualChanges : ~StrLess(d, e))
              => \A i \in 1..Len(shifts) :
                    shifts[i].teacherId =
                        Nth(teachers, IndexOf(teachers, manualChanges[d])
                                      + DayNum(shifts[i].date) - DayNum(d))

\* February 2024 is shown, the start date is in January, and an override in
\* January makes February 1st differ from the rotation counted from the start date
C10_Witness ==
    /\ EffectRan
    /\ teachers # <<>>
    /\ currentDate.year = 2024 /\ currentDate.month = 1
    /\ StrLess(scheduleStartDate, <<2024, 2, 1>>)
    /\ \E d \in DOMAIN manualChanges :
          /\ StrLeq(scheduleStartDate, d) /\ StrLess(d, <<2024, 2, 1>>)
          /\ manualChanges[d] \in RosterIds(teachers)
    /\ shifts[1].date \notin DOMAIN manualChanges
    /\ shifts[1].teacherId # NULL
    /\ shifts[1].teacherId #
          Nth(teachers, DayNum(shifts[1].date) - DayNum(scheduleStartDate))

\* C12: the generator is total: for every roster (empty or not), every start date
\* (before, inside or after the visible month) and every override map it reaches
\* no error state and, once finished, has produced one entry per day of the visible
\* month; the cursor is never negative, so the remainder taken for a rotation pick
\* is an index of the roster.
C12_GeneratorTotal ==
    /\ ~crashed
    /\ ~walk.err
    /\ walk.idx >= 0
    /\ walk.pc = "done" => Len(shifts) = DaysInMonth(currentDate.year, currentDate.month)

\* a finished walk over a non-empty roster with an override, whose cursor has
\* passed the end of the roster
C12_Witness ==
    /\ walk.pc = "done"
    /\ teachers # <<>>
    /\ manualChanges # <<>>
    /\ walk.idx > Len(teachers)
    /\ ~StrLess(LastDayStr(currentDate), scheduleStartDate)

\* C19: when the walk has run, fullSchedule holds an entry for every date of the
\* visible month that is on or after startDate, so the final lookup never uses its
\* null default.
C19_ResultCoversMonthFromStart ==
    (walk.pc = "done" /\ visited # <<>>) =>
        \A i \in 1..Len(shifts) :
            ~StrLess(shifts[i].date, scheduleStartDate) => shifts[i].date \in DOMAIN walk.fs

\* a finished walk whose start date is inside the visible month, after its first day
C19_Witness ==
    /\ walk.pc = "done"
    /\ visited # <<>>
    /\ scheduleStartDate[2] = currentDate.month + 1
    /\ \E i \in 1..Len(shifts) : StrLess(shifts[i].date, scheduleStartDate)

\* the number of iterations the walk owes: the days from startDate to the last day
\* of the visible month, none when startDate is after it or the roster is empty
DaysToWalk ==
    LET n == DayNum(LastDayStr(currentDate)) - DayNum(scheduleStartDate) + 1
    IN  IF teachers = <<>> \/ n < 0 THEN 0 ELSE n

\* C20: the walk terminates for every input: every iteration handles one more
\* date, the dates handled are those from startDate on, in ascending order and
\* each once, their number never exceeds lastDay - startDate + 1 and is exactly
\* that when the walk has finished; there is none when startDate is after lastDay.
C20_WalkVisitsEachDateOnce ==
    /\ \A i \in 1..Len(visited) : DayNum(visited[i]) = DayNum(scheduleStartDate) + i - 1
    /\ Len(visited) <= DaysToWalk
    /\ walk.pc = "loop" => Len(visited) = DayNum(formatDate(walk.ptr)) - DayNum(scheduleStartDate)
    /\ walk.pc = "done" => Len(visited) = DaysToWalk

\* a finished walk that started in the month before the visible one
C20_Witness ==
    /\ walk.pc = "done"
    /\ scheduleStartDate[2] = currentDate.month
    /\ Len(visited) > 31

\* the inputs of the generator
inputs == <<teachers, scheduleStartDate, manualChanges, currentDate>>

\* the teacher a schedule assigns to the date d
ShiftOn(sh, d) == sh[CHOOSE i \in 1..Len(sh) : sh[i].date = d].teacherId

\* C11: the generator is a function of its inputs alone: whatever invocations came
\* before, the output an invocation leaves is the output of a first invocation on
\* the same roster, start date, override map and visible month, so two invocations
\* with identical inputs yield identical outputs; neither the cursor nor the result
\* map is carried from one invocation to the next.
C11_SameInputsSameOutput ==
    Mounted => shifts = Generate(teachers, scheduleStartDate, manualChanges, currentDate)

\* a state that only a series of invocations reaches: a teacher has been added, a
\* date overridden and the visible month changed
C11_Witness ==
    /\ Mounted
    /\ "100" \in RosterIds(teachers)
    /\ manualChanges # <<>>
    /\ currentDate.month # Today.month

\* C13 (as stated): the ids of the roster are pairwise distinct in every reachable
\* state.
C13_AsStated == Cardinality(RosterIds(teachers)) = Len(teachers)

DeletesOverriding(B, d) ==
    /\ Len(teachers) = 3
    /\ Cardinality(RosterIds(teachers)) = 3
    /\ teachers[2] = B
    /\ DOMAIN manualChanges = {d}
    /\ manualChanges[d] = B
    /\ Shown(d)
    /\ ~StrLess(d, scheduleStartDate)
    /\ handleDeleteTeacher(B)

C16_RotationFollowsCurrentRoster ==
    (Mounted /\ manualChanges = <<>> /\ teachers # <<>>) =>
        \A i \in 1..Len(shifts) :
            ~StrLess(shifts[i].date, scheduleStartDate) =>
                shifts[i].teacherId =
                    Nth(teachers, DayNum(shifts[i].date) - DayNum(scheduleStartDate))

\* a roster no load yields: a teacher was added and dragged to the top, another
\* was deleted; the rotation is visible in the month shown
C16_Witness ==
    /\ Mounted
    /\ manualChanges = <<>>
    /\ Len(teachers) = 2
    /\ teachers[1] = "100"
    /\ teachers[2] = "1"
    /\ ~StrLess(LastDayStr(currentDate), scheduleStartDate)

\* C17: every step that changes the roster, the start date, the override map or the
\* visible month leaves the shifts generated from the new values of the four: no
\* result computed from an earlier value survives the change.
C17_RecomputedAfterEveryMutation ==
    [][(inputs' # inputs /\ ~crashed') =>
          shifts' = Generate(teachers', scheduleStartDate', manualChanges', currentDate')]_vars

\* all four inputs differ from what a load without saved state gives
C17_Witness ==
    /\ Mounted
    /\ teachers # initialTeachers
    /\ teachers # <<>>
    /\ scheduleStartDate # formatDate(Today)
    /\ manualChanges # <<>>
    /\ currentDate # Today

\* C18 (as stated): the generator is only ever invoked with a well-formed roster,
\* start date and override map: malformed persisted or shared state is replaced by
\* safe defaults when it is loaded.
C18_AsStated ==
    EffectRan => (~crashed /\ \A i \in 1..Len(teachers) : teachers[i] # NULL)

\* C28: for a roster with unique ids, an override of a date d on or after startDate
\* with exactly the teacher the generator assigns to d without that override leaves
\* the assignment of every date unchanged: setting the cursor to index + 1 and
\* advancing it by one agree modulo the length of the roster.
C28_OverrideWithRotationPickChangesNothing ==
    (EffectRan /\ teachers # <<>> /\ Cardinality(RosterIds(teachers)) = Len(teachers)) =>
        \A d \in DOMAIN manualChanges :
            (/\ ~StrLess(d, scheduleStartDate)
             /\ StrLeq(d, LastDayStr(currentDate))
             /\ manualChanges[d] = WouldGet(d))
                => shifts = Generate(teachers, scheduleStartDate,
                                     WithoutKeys(manualChanges, {d}), currentDate)

\* a roster of three distinct teachers and a date overridden with its own rotation
\* pick, with later dates of the visible month to be assigned after it
C28_Witness ==
    /\ EffectRan
    /\ Len(teachers) = 3
    /\ Cardinality(RosterIds(teachers)) = 3
    /\ \E d \in DOMAIN manualChanges :
          /\ ~StrLess(d, scheduleStartDate)
          /\ StrLess(d, LastDayStr(currentDate))
          /\ manualChanges[d] = WouldGet(d)
          /\ WouldGet(d) # teachers[3]

\* C29: every non-null teacherId of a generated schedule is the id of a teacher of
\* the roster the generator was invoked with; an id that is not in the roster never
\* appears in the output, whatever the override map contains.
C29_OutputIdsAreRosterIds ==
    EffectRan =>
        \A i \in 1..Len(shifts) :
            shifts[i].teacherId = NULL \/ shifts[i].teacherId \in RosterIds(teachers)

\* a non-empty roster and an override, on a shown date on or after startDate, whose
\* value is the id of a teacher that is not in the roster
C29_Witness ==
    /\ EffectRan
    /\ teachers # <<>>
    /\ \E d \in DOMAIN manualChanges :
          /\ InVisibleMonth(d)
          /\ ~StrLess(d, scheduleStartDate)
          /\ manualChanges[d] # EMPTY
          /\ manualChanges[d] \notin RosterIds(teachers)

\* the override map restricted to the dates before e
OverridesBefore(mc, e) == [d \in {k \in DOMAIN mc : StrLess(k, e)} |-> mc[d]]

\* C30: the assignment of a date d on or after startDate depends only on the roster,
\* startDate and the overrides on the dates up to d: the schedule generated without
\* the override on a date e and without those after e agrees with the schedule on
\* every date before e, so adding, changing or removing an override after d never
\* changes the assignment of d.
C30_LaterOverridesDoNotMatter ==
    EffectRan =>
        \A e \in DOMAIN manualChanges :
            LET g == Generate(teachers, scheduleStartDate,
                              OverridesBefore(manualChanges, e), currentDate)
            IN  \A i \in 1..Len(shifts) : StrLess(shifts[i].date, e) => shifts[i] = g[i]

\* a roster of two teachers or more, an override with a teacher of the roster on a
\* shown date, and a shown date on or after startDate before it
C30_Witness ==
    /\ EffectRan
    /\ Len(teachers) >= 2
    /\ \E e \in DOMAIN manualChanges :
          /\ InVisibleMonth(e)
          /\ manualChanges[e] \in RosterIds(teachers)
          /\ StrLess(scheduleStartDate, e)
          /\ \E i \in 1..Len(shifts) :
                StrLess(shifts[i].date, e) /\ shifts[i].teacherId # NULL

\* C21: clearing all teachers, when confirmed, leaves the roster, the override map
\* and the colour map empty and the start date as it was; from then on every date
\* of every visible month is assigned null, whichever month is navigated to; when
\* the confirmation is declined, roster, overrides, colours and start date are
\* unchanged.
C21_ClearAllEmptiesEverything ==
    [][/\ handleClearTeachers(TRUE) =>
              /\ teachers' = <<>>
              /\ manualChanges' = <<>>
              /\ dateColors' = <<>>
              /\ scheduleStartDate' = scheduleStartDate
              /\ AllNull(shifts')
       /\ (teachers = <<>> /\ \E offset \in {-1, 1} : handleMonthChange(offset)) =>
              (shifts' # <<>> /\ AllNull(shifts'))
       /\ handleClearTeachers(FALSE) =>
              UNCHANGED <<teachers, manualChanges, dateColors, scheduleStartDate>>]_vars

\* a mounted state with teachers, an override and a coloured date, from which the
\* roster can be cleared
C21_Witness ==
    /\ Mounted
    /\ Len(teachers) >= 2
    /\ \E d \in DOMAIN manualChanges : manualChanges[d] \in RosterIds(teachers)
    /\ dateColors # <<>>

\* C22: changing the start date to a non-empty value sets the new start date and
\* empties the override map and the colour map, so the schedule after the change is
\* the pure rotation: the date k days after the new start date is assigned
\* teachers[k mod n]; an empty date value changes nothing.
C22_StartDateChangeRestartsRotation ==
    [][/\ \A newDate \in AppStartDates :
              handleStartDateChange(newDate) =>
                  /\ scheduleStartDate' = newDate
                  /\ manualChanges' = <<>>
                  /\ dateColors' = <<>>
                  /\ teachers' = teachers
                  /\ teachers # <<>> =>
                        \A i \in 1..Len(shifts') :
                            ~StrLess(shifts'[i].date, newDate) =>
                                shifts'[i].teacherId =
                                    Nth(teachers, DayNum(shifts'[i].date) - DayNum(newDate))
       /\ handleStartDateChange(<<>>) =>
              UNCHANGED <<teachers, scheduleStartDate, manualChanges, dateColors, shifts>>]_vars

\* a mounted state with an override that changes the schedule and a coloured date,
\* showing the month of one of the start dates that can be entered
C22_Witness ==
    /\ Mounted
    /\ Len(teachers) >= 2
    /\ dateColors # <<>>
    /\ \E d \in DOMAIN manualChanges :
          /\ Shown(d)
          /\ ~StrLess(d, scheduleStartDate)
          /\ manualChanges[d] \in RosterIds(teachers)
          /\ manualChanges[d] # WouldGet(d)

\* the override map after the step has the keys it had and the key date, and the
\* values of the other keys are unchanged
OnlyKeyTouched(date) ==
    /\ DOMAIN manualChanges' = DOMAIN manualChanges \cup {date}
    /\ \A d \in DOMAIN manualChanges \ {date} : manualChanges'[d] = manualChanges[d]

\* C23: clearing the shift of a date (handleClearShift, or handleUpdateShift with a
\* null teacher) never removes the key of the date from the override map: it stores
\* the EMPTY sentinel for the date and leaves every other key unchanged, so the date
\* is assigned null and does not return to rotation; selecting a teacher stores the
\* id of the teacher for that date only.
C23_ClearShiftStoresSentinel ==
    [][\A date \in AppOverrideDates :
          /\ (handleClearShift(date) \/ handleUpdateShift(date, NULL)) =>
                 /\ date \in DOMAIN manualChanges'
                 /\ manualChanges'[date] = EMPTY
                 /\ OnlyKeyTouched(date)
                 /\ ShiftOn(shifts', date) = NULL
          /\ \A id \in RosterIds(teachers) :
                 handleUpdateShift(date, id) =>
                     /\ date \in DOMAIN manualChanges'
                     /\ manualChanges'[date] = id
                     /\ OnlyKeyTouched(date)]_vars

\* a mounted state with a roster, an override on another date and a shown date on or
\* after startDate that rotation or an override gives to a teacher
C23_Witness ==
    /\ Mounted
    /\ teachers # <<>>
    /\ \E date \in AppOverrideDates :
          /\ Shown(date)
          /\ ~StrLess(date, scheduleStartDate)
          /\ ShiftOn(shifts, date) # NULL
          /\ DOMAIN manualChanges \ {date} # {}

\* the roster t without the rows of the teacher id, the others in their order
RECURSIVE RosterWithout(_, _)
RosterWithout(t, id) ==
    IF t = <<>> THEN <<>>
    ELSE IF Head(t) = id THEN RosterWithout(Tail(t), id)
    ELSE <<Head(t)>> \o RosterWithout(Tail(t), id)

\* C24: deleting teacher X removes X from the roster, the remaining teachers keeping
\* their relative order, and removes from the override map exactly the keys whose
\* value is the id of X; the keys that hold the EMPTY sentinel or the id of another
\* teacher are kept with their values, and the start date and the colour map are
\* unchanged.
C24_DeleteTeacherFrame ==
    [][\A X \in RosterIds(teachers) :
          handleDeleteTeacher(X) =>
              /\ teachers' = RosterWithout(teachers, X)
              /\ DOMAIN manualChanges' = {d \in DOMAIN manualChanges : manualChanges[d] # X}
              /\ \A d \in DOMAIN manualChanges' : manualChanges'[d] = manualChanges[d]
              /\ scheduleStartDate' = scheduleStartDate
              /\ dateColors' = dateColors]_vars

\* a mounted state with three teachers, an override with the middle one, an override
\* with another value and a coloured date: the middle teacher can be deleted
C24_Witness ==
    /\ Mounted
    /\ Len(teachers) = 3
    /\ teachers[1] # teachers[3]
    /\ \E d \in DOMAIN manualChanges : manualChanges[d] = teachers[2]
    /\ \E d \in DOMAIN manualChanges : manualChanges[d] # teachers[2]
    /\ dateColors # <<>>

\* no override is stale: every value is the EMPTY sentinel or the id of a teacher of
\* the roster
NoStaleOverride(mc, t) == \A d \in DOMAIN mc : mc[d] = EMPTY \/ mc[d] \in RosterIds(t)

\* C25: from a state in which every override value is the EMPTY sentinel or the id
\* of a roster member, every user operation (add, delete, reorder, set override,
\* clear shift, set start date, reset schedule, clear all, month navigation) leads
\* to a state in which that is so again: no stale override is reachable through the
\* user operations.
C25_NoStaleOverrideThroughUserOperations ==
    [][NoStaleOverride(manualChanges, teachers) => NoStaleOverride(manualChanges', teachers')]_vars

\* a mounted state whose override map has a teacher of the roster and the sentinel,
\* and whose roster has more than one teacher
C25_Witness ==
    /\ Mounted
    /\ Len(teachers) >= 2
    /\ \E d \in DOMAIN manualChanges : manualChanges[d] \in RosterIds(teachers)
    /\ \E d \in DOMAIN manualChanges : manualChanges[d] = EMPTY

\* ------------------------------------------------- drag and drop of the rows
\* onDragStart={() => (dragTeacherId.current = teacher.id)}
onDragStart(teacher) ==
    /\ Mounted
    /\ dragTeacherId' = teacher
    /\ UNCHANGED <<teachers, scheduleStartDate, manualChanges, currentDate, shifts, crashed,
                   dateColors, dragOverTeacherId, walk, visited>>

\* onDragEnter={() => (dragOverTeacherId.current = teacher.id)}
onDragEnter(teacher) ==
    /\ Mounted
    /\ dragOverTeacherId' = teacher
    /\ UNCHANGED <<teachers, scheduleStartDate, manualChanges, currentDate, shifts, crashed,
                   dateColors, dragTeacherId, walk, visited>>

\* onDragEnd={onDragSort}: handleDragSort reads the two refs
onDragEnd == handleDragSort(dragTeacherId, dragOverTeacherId)

\* a roster of the pool, no override, the refs unset; the rows can be dragged over
\* each other and a teacher can be deleted while the refs still hold its id
InitDrag ==
    /\ teachers \in Rosters
    /\ scheduleStartDate = <<2024, 1, 1>>
    /\ manualChanges = <<>>
    /\ currentDate = Today
    /\ shifts = <<>>
    /\ crashed = FALSE
    /\ dateColors = <<>>
    /\ dragTeacherId = NULL
    /\ dragOverTeacherId = NULL
    /\ walk = IdleWalk
    /\ visited = <<>>

NextDrag ==
    \/ RegenerateSchedule
    \/ \E teacher \in RosterIds(teachers) : onDragStart(teacher)
    \/ \E teacher \in RosterIds(teachers) : onDragEnter(teacher)
    \/ onDragEnd
    \/ \E teacherId \in RosterIds(teachers) : handleDeleteTeacher(teacherId)

SpecDrag == InitDrag /\ [][NextDrag]_vars

\* the sequence t without its element at the 1-based position i
RemoveAt(t, i) == SubSeq(t, 1, i - 1) \o SubSeq(t, i + 1, Len(t))

\* C26: the end of a drag of teacher X onto a different teacher Y yields a
\* permutation of the roster in which X is at the index Y had and the other
\* teachers keep their relative order; when X = Y, or one of the two ids is unset or
\* is not in the roster, the roster is unchanged.
C26_DragSortMovesOneRow ==
    [][onDragEnd =>
          LET X == dragTeacherId
              Y == dragOverTeacherId
              from == FindIndex(teachers, X) + 1
              to == FindIndex(teachers, Y) + 1
          IN  IF X # NULL /\ Y # NULL /\ X # Y
                 /\ X \in RosterIds(teachers) /\ Y \in RosterIds(teachers)
              THEN /\ Len(teachers') = Len(teachers)
                   /\ teachers'[to] = X
                   /\ RemoveAt(teachers', to) = RemoveAt(teachers, from)
              ELSE teachers' = teachers]_vars

\* a drag of the first of three different teachers onto the last is about to end
C26_Witness ==
    /\ Mounted
    /\ Len(teachers) = 3
    /\ Cardinality(RosterIds(teachers)) = 3
    /\ dragTeacherId = teachers[1]
    /\ dragOverTeacherId = teachers[3]

\* a drag is about to end whose refs hold the id of a deleted teacher
C26_WitnessStaleRef ==
    /\ Mounted
    /\ dragTeacherId # NULL /\ dragOverTeacherId # NULL
    /\ dragTeacherId # dragOverTeacherId
    /\ dragOverTeacherId \notin RosterIds(teachers)

\* ------------------------------------------------- month navigation
\* new Date() at line 139 on the 15th and on the last three days of January 2024
ClockDays == {15, 29, 30, 31}

\* the page is opened on one of these days with a roster of at most two teachers,
\* and only the two month buttons are used
InitMonth ==
    /\ teachers \in SeqsUpTo(TeacherIds, 2)
    /\ scheduleStartDate = formatDate(Today)
    /\ manualChanges = <<>>
    /\ \E day \in ClockDays : currentDate = [Today EXCEPT !.date = day]
    /\ shifts = <<>>
    /\ crashed = FALSE
    /\ dateColors = <<>>
    /\ dragTeacherId = NULL
    /\ dragOverTeacherId = NULL
    /\ walk = IdleWalk
    /\ visited = <<>>

NextMonth ==
    \/ RegenerateSchedule
    \/ \E offset \in {-1, 1} : handleMonthChange(offset)

SpecMonth == InitMonth /\ [][NextMonth]_vars

\* the number of the calendar month that a Date shows
MonthNumber(date) == 12 * date.year + date.month

\* C27 (as stated): month navigation with offset +1 moves the visible month to
\* exactly the next calendar month and with offset -1 to exactly the previous one,
\* whatever day of the month the stored current date carries, so that no month is
\* skipped.
C27_AsStated ==
    [][\A offset \in {-1, 1} :
          handleMonthChange(offset) =>
              MonthNumber(currentDate') = MonthNumber(currentDate) + offset]_vars

====
